---- MODULE Spec2Model ----
(***************************************************************************)
(* The include resolver of compose_addons/includes.py as a state machine.  *)
(*                                                                         *)
(* Strings are modelled by what the code does to them.  A name (service    *)
(* key, namespace, link name, alias) is the sequence of its '.'-separated  *)
(* segments, so that  ns + '.' + key  is sequence concatenation and a key  *)
(* that already contains a '.' is an ordinary value; the empty string is   *)
(* <<"">>.  A links / volumes_from entry is the sequence of its            *)
(* ':'-separated parts (the value of entry.split(':')).  Service           *)
(* dictionaries are objects on a heap: a document's top-level mapping      *)
(* holds references, which is what dict(...) copies.                       *)
(***************************************************************************)
EXTENDS Integers, Sequences, FiniteSets, TLC

VARIABLES
    files,      \* the environment: what every located reference holds
    base,       \* the base document handed to include()
    cache,      \* ConfigCache.cache: located reference -> stored document
    heap,       \* the service dictionaries, by object identity
    stack,      \* the activations of fetch_includes (innermost last)
    status,     \* "init", "running", "done", "failed", "overflow"
    error,      \* the exception that ended the run, "none" otherwise
    result,     \* the document include() returned (when status = "done")
    fetchLog,   \* history: the located references handed to fetch_func
    included,   \* history: the include entries fetch_include was called for
    cwd,        \* the process working directory
    fcall,      \* the local-file transport's last call: its input and outcome
    fpc         \* the local-file transport: "idle", "returned", "raised"

vars == <<files, base, cache, heap, stack, status, error, result,
          fetchLog, included, cwd, fcall, fpc>>

resolverVars == <<files, base, cache, heap, stack, status, error, result,
                  fetchLog, included>>
fileVars == <<cwd, fcall, fpc>>

----------------------------------------------------------------------------
(* Bounds *)

\* the deepest nesting of fetch_include activations the model follows
MaxDepth == 4
\* the longest volumes list of a service in a local file
MaxVolumes == 2

----------------------------------------------------------------------------
(* Names *)

EmptyString == <<"">>
None == <<>>

\* Python truthiness of a string-or-None value
Truthy(s) == s # None /\ s # EmptyString

ka == <<"a">>
kb == <<"b">>
kc == <<"c">>
db == <<"db">>
ro == <<"ro">>
X == <<"x">>
Y == <<"y">>
\* the key "x.a": a service name that already contains the separator
kxa == <<"x", "a">>
IncludeKey == <<"include">>
NamespaceKey == <<"namespace">>

\* namespace + '.' + key
Dotted(namespace, key) == namespace \o key

----------------------------------------------------------------------------
(* Located references *)

Url(scheme, netloc, path) == [scheme |-> scheme, netloc |-> netloc, path |-> path]

RawRefs ==
    { Url("", "", "/etc/a.yml"), Url("file", "", "/etc/a.yml"),
      Url("http", "h", "/b.yml"), Url("s3", "bk", "/k.yml"),
      Url("ftp", "h", "/c.yml") }

normalize_url(url) ==
    IF url.scheme # "" THEN url ELSE [url EXCEPT !.scheme = "file"]

Locs == { normalize_url(u) : u \in RawRefs }

FileLoc == Url("file", "", "/etc/a.yml")
HttpLoc == Url("http", "h", "/b.yml")
S3Loc == Url("s3", "bk", "/k.yml")
FtpLoc == Url("ftp", "h", "/c.yml")
\* the owner of the base document's service objects (not a location)
BaseLoc == Url("base", "", "")

----------------------------------------------------------------------------
(* Documents *)

Id(loc, key) == [loc |-> loc, key |-> key]

EmptyMap == [k \in {} |-> None]

\* a top-level mapping: the service keys (each bound to an object) and the
\* reserved 'include' key (hasInc: present; inc: its entries in iteration order)
Config(svc, hasInc, inc) == [svc |-> svc, hasInc |-> hasInc, inc |-> inc]

Entry(namespace, url) == [ns |-> namespace, url |-> url]

Service(links, volumes_from) == [links |-> links, volumes_from |-> volumes_from]

Plain == Service(<<>>, <<>>)

\* config.keys(): every top-level key, the reserved one included
Keys(config) == DOMAIN config.svc \cup (IF config.hasInc THEN {IncludeKey} ELSE {})

\* the sequences that enumerate a finite set once each: the orders in which
\* a dict may hand out its keys
Orders(S) ==
    { s \in [1..Cardinality(S) -> S] : \A i, j \in 1..Cardinality(S) : s[i] = s[j] => i = j }

----------------------------------------------------------------------------
(* merge_configs: base.update(config) for each config, in order *)

Update(d, e) ==
    Config([k \in DOMAIN d.svc \cup DOMAIN e.svc |->
                IF k \in DOMAIN e.svc THEN e.svc[k] ELSE d.svc[k]],
           d.hasInc \/ e.hasInc,
           IF e.hasInc THEN e.inc ELSE d.inc)

RECURSIVE merge_configs(_, _)
merge_configs(d, configs) ==
    IF configs = <<>> THEN d
    ELSE merge_configs(Update(d, Head(configs)), Tail(configs))

----------------------------------------------------------------------------
(* resolve_namespaced_links *)

\* link.split(':')[1] raises IndexError when the entry has no ':'
LinkRaises(link) == Len(link) < 2

RewriteLink(link, namespace, servicekeys) ==
    LET name == link[1]
        alias == link[2]
    IN  IF name \notin servicekeys THEN link
        ELSE LET qualified == IF Truthy(namespace) THEN Dotted(namespace, name) ELSE name
             IN  IF Truthy(alias) THEN <<qualified, alias>> ELSE <<qualified>>

RewriteVolumesFrom(volume, namespace, servicekeys) ==
    LET name == volume[1]
        alias == IF Len(volume) > 1 THEN volume[2] ELSE None
    IN  IF name \notin servicekeys THEN volume
        ELSE LET qualified == IF Truthy(namespace) THEN Dotted(namespace, name) ELSE name
             IN  IF Truthy(alias) THEN <<qualified, alias>> ELSE <<qualified>>

RewriteService(service, namespace, servicekeys) ==
    Service([i \in 1..Len(service.links) |->
                 RewriteLink(service.links[i], namespace, servicekeys)],
            [i \in 1..Len(service.volumes_from) |->
                 RewriteVolumesFrom(service.volumes_from[i], namespace, servicekeys)])

ServiceRaises(service) ==
    \E i \in 1..Len(service.links) : LinkRaises(service.links[i])

\* whether the rewriting of config's services raises
resolve_namespaced_links_raises(config, h) ==
    \E k \in DOMAIN config.svc : ServiceRaises(h[config.svc[k]])

\* the heap after the rewriting: the service objects are changed in place.
\* (The loop also visits the 'include' mapping and pops 'links' and
\* 'volumes_from' from it; no namespace of the model has those names.)
resolve_namespaced_links(config, namespace, servicekeys, h) ==
    LET touched == { config.svc[k] : k \in DOMAIN config.svc }
    IN  [id \in DOMAIN h |->
            IF id \in touched THEN RewriteService(h[id], namespace, servicekeys)
            ELSE h[id]]

----------------------------------------------------------------------------
(* fetch_include: key qualification *)

\* service = config.pop(key); config[namespace + '.' + key] = service
QualifyKey(svc, namespace, key) ==
    LET new == Dotted(namespace, key)
    IN  [j \in (DOMAIN svc \ {key}) \cup {new} |->
            IF j = new THEN svc[key] ELSE svc[j]]

RECURSIVE QualifyKeys(_, _, _)
QualifyKeys(svc, namespace, order) ==
    IF order = <<>> THEN svc
    ELSE QualifyKeys(QualifyKey(svc, namespace, Head(order)), namespace, Tail(order))

\* fetch_includes: parent + '.' + namespace if parent else namespace
EffectiveNamespace(parent, namespace) ==
    IF Truthy(parent) THEN Dotted(parent, namespace) ELSE namespace

\* the parent namespace fetch_include hands to the recursive fetch_includes
RecursionParent(namespace) == None

----------------------------------------------------------------------------
(* fetch_external_config and the transports *)

Ok(doc) == [ok |-> TRUE, err |-> "none", doc |-> doc]
Raise(err) == [ok |-> FALSE, err |-> err, doc |-> Config(EmptyMap, FALSE, <<>>)]

\* what a location holds in the environment
Holds(svcs, hasInc, inc) == [present |-> TRUE, svcs |-> svcs, hasInc |-> hasInc, inc |-> inc]
Absent == [present |-> FALSE, svcs |-> EmptyMap, hasInc |-> FALSE, inc |-> <<>>]

\* the parsed document of a location: fresh service objects, owned by it
Parsed(url, f) ==
    Config([k \in DOMAIN f.svcs |-> Id(url, k)], f.hasInc, f.inc)

\* a transport that answers a failed request with an empty document
get_project_from_http_swallowing(url, f) == Ok(Parsed(url, f))

get_project_from_http(url, f) ==
    IF f.present THEN Ok(Parsed(url, f)) ELSE Raise("FetchExternalConfigError")

\* open() on a path that cannot be read: nothing wraps the IOError
get_project_from_file_result(url, f) ==
    IF f.present THEN Ok(Parsed(url, f)) ELSE Raise("IOError")

get_project_from_s3(url, f) ==
    IF f.present THEN Ok(Parsed(url, f)) ELSE Raise("FetchExternalConfigError")

fetch_external_config(url, f) ==
    IF url.scheme \in {"http", "https"} THEN get_project_from_http(url, f)
    ELSE IF url.scheme = "file" THEN get_project_from_file_result(url, f)
    ELSE IF url.scheme = "s3" THEN get_project_from_s3(url, f)
    ELSE Raise("ConfigError")

\* a cache that forgets what it fetched
ConfigCache_store_nothing(cch, url, doc) == cch

\* ConfigCache.get: the cache after the call (a miss stores what was fetched)
ConfigCache_store(cch, url, doc) ==
    [u \in DOMAIN cch \cup {url} |-> IF u = url THEN doc ELSE cch[u]]

\* ConfigCache.get: dict(self.cache[url]), a copy of the top-level mapping
\* whose values are the stored document's own service objects
ConfigCache_copy(doc) == Config(doc.svc, doc.hasInc, doc.inc)

----------------------------------------------------------------------------
(* The run: include(), fetch_includes(), fetch_include() *)

Frame(config, pending, configs, parent) ==
    [config |-> config, pending |-> pending, configs |-> configs, parent |-> parent]

NoDocument == Config(EmptyMap, FALSE, <<>>)

Top == stack[Len(stack)]

\* the include entry fetch_includes handles next, and what fetch_include
\* computes for it up to its own call of fetch_includes
NextEntry == Head(Top.pending)
NextUrl == normalize_url(NextEntry.url)
NextNamespace == EffectiveNamespace(Top.parent, NextEntry.ns)
Hit == NextUrl \in DOMAIN cache
Fetched == fetch_external_config(NextUrl, files[NextUrl])
CacheAfterGet == IF Hit THEN cache ELSE ConfigCache_store(cache, NextUrl, Fetched.doc)
HeapAfterGet ==
    IF Hit THEN heap
    ELSE LET new == { Id(NextUrl, k) : k \in DOMAIN files[NextUrl].svcs }
         IN  [id \in DOMAIN heap \cup new |->
                 IF id \in new THEN files[NextUrl].svcs[id.key] ELSE heap[id]]
GotConfig == ConfigCache_copy(IF Hit THEN cache[NextUrl] ELSE Fetched.doc)
LogAfterGet == IF Hit THEN fetchLog ELSE Append(fetchLog, NextUrl)
Visit == [ns |-> NextEntry.ns, eff |-> NextNamespace, url |-> NextUrl]

Calling == status = "running" /\ stack # <<>> /\ Top.pending # <<>>

\* include(): drop the 'namespace' key, then fetch_includes pops 'include'
Include ==
    /\ status = "init"
    /\ status' = "running"
    /\ stack' = << Frame(Config([k \in DOMAIN base.svc \ {NamespaceKey} |-> base.svc[k]],
                                FALSE, <<>>),
                         IF base.hasInc THEN base.inc ELSE <<>>, <<>>, None) >>
    /\ UNCHANGED <<files, base, cache, heap, error, result, fetchLog, included, fileVars>>

\* fetch_include up to its recursive call: cache.get, the rewriting of links
\* and volumes_from, the key qualification, then fetch_includes on the result
FetchInclude ==
    /\ Calling
    /\ Len(stack) < MaxDepth
    /\ Hit \/ Fetched.ok
    /\ ~(Truthy(NextNamespace) /\ resolve_namespaced_links_raises(GotConfig, HeapAfterGet))
    /\ \E order \in Orders(DOMAIN GotConfig.svc) :
          stack' = [stack EXCEPT ![Len(stack)].pending = Tail(@)] \o
                   << Frame(Config(QualifyKeys(GotConfig.svc, NextNamespace, order), FALSE, <<>>),
                            IF GotConfig.hasInc THEN GotConfig.inc ELSE <<>>,
                            <<>>, RecursionParent(NextNamespace)) >>
    /\ cache' = CacheAfterGet
    /\ heap' = IF Truthy(NextNamespace)
                 THEN resolve_namespaced_links(GotConfig, NextNamespace, Keys(GotConfig), HeapAfterGet)
                 ELSE HeapAfterGet
    /\ fetchLog' = LogAfterGet
    /\ included' = Append(included, Visit)
    /\ UNCHANGED <<files, base, status, error, result, fileVars>>

\* cache.get misses and the fetch raises: nothing catches the exception
FetchIncludeFetchError ==
    /\ Calling
    /\ Len(stack) < MaxDepth
    /\ ~Hit /\ ~Fetched.ok
    /\ status' = "failed"
    /\ error' = Fetched.err
    /\ stack' = <<>>
    /\ fetchLog' = LogAfterGet
    /\ included' = Append(included, Visit)
    /\ UNCHANGED <<files, base, cache, heap, result, fileVars>>

\* a links entry without ':' makes resolve_namespaced_links raise IndexError.
\* (Services visited before the offending one have been rewritten by then; the
\* run is over and nothing reads them, so the heap is left as fetched.)
FetchIncludeLinkError ==
    /\ Calling
    /\ Len(stack) < MaxDepth
    /\ Hit \/ Fetched.ok
    /\ Truthy(NextNamespace) /\ resolve_namespaced_links_raises(GotConfig, HeapAfterGet)
    /\ status' = "failed"
    /\ error' = "IndexError"
    /\ stack' = <<>>
    /\ cache' = CacheAfterGet
    /\ heap' = HeapAfterGet
    /\ fetchLog' = LogAfterGet
    /\ included' = Append(included, Visit)
    /\ UNCHANGED <<files, base, result, fileVars>>

\* the nesting reaches the depth the model follows: the recursion goes on
RecursionLimit ==
    /\ Calling
    /\ Len(stack) = MaxDepth
    /\ status' = "overflow"
    /\ UNCHANGED <<files, base, cache, heap, stack, error, result, fetchLog, included, fileVars>>

\* fetch_include returns merge_configs(config, configs) to its caller's list
FetchIncludeReturn ==
    /\ status = "running" /\ Len(stack) > 1 /\ Top.pending = <<>>
    /\ stack' = [SubSeq(stack, 1, Len(stack) - 1) EXCEPT
                    ![Len(stack) - 1].configs = Append(@, merge_configs(Top.config, Top.configs))]
    /\ UNCHANGED <<files, base, cache, heap, status, error, result, fetchLog, included, fileVars>>

\* include() returns merge_configs(base_config, fetch_includes(...))
IncludeReturn ==
    /\ status = "running" /\ Len(stack) = 1 /\ Top.pending = <<>>
    /\ result' = merge_configs(Top.config, Top.configs)
    /\ status' = "done"
    /\ stack' = <<>>
    /\ UNCHANGED <<files, base, cache, heap, error, fetchLog, included, fileVars>>

ResolverNext ==
    \/ Include
    \/ FetchInclude
    \/ FetchIncludeFetchError
    \/ FetchIncludeLinkError
    \/ RecursionLimit
    \/ FetchIncludeReturn
    \/ IncludeReturn

----------------------------------------------------------------------------
(* The local-file transport: get_project_from_file, resolve_relative_paths *)

\* A path string is the sequence of its '/'-separated segments and whether it
\* starts with '/'; '' is the relative path without segments.  A directory
\* (the working directory) is the sequence of the segments below the root.
Path(abs, segs) == [abs |-> abs, segs |-> segs]
Rel(segs) == Path(FALSE, segs)
Abs(segs) == Path(TRUE, segs)

\* os.path.normpath on segments: '.' is dropped, '..' removes the segment before it
RECURSIVE NormSegs(_, _)
NormSegs(done, todo) ==
    IF todo = <<>> THEN done
    ELSE IF Head(todo) = "." THEN NormSegs(done, Tail(todo))
    ELSE IF Head(todo) = ".."
         THEN NormSegs(IF done = <<>> THEN done ELSE SubSeq(done, 1, Len(done) - 1), Tail(todo))
    ELSE NormSegs(Append(done, Head(todo)), Tail(todo))

\* os.path.abspath(path) in working directory dir
abspath(path, dir) ==
    Abs(NormSegs(<<>>, IF path.abs THEN path.segs ELSE dir \o path.segs))

\* os.path.dirname(path)
dirname(path) ==
    Path(path.abs, IF path.segs = <<>> THEN <<>> ELSE SubSeq(path.segs, 1, Len(path.segs) - 1))

\* a service of a local file: build (a path, or None), volumes (each entry
\* the sequence of its ':'-separated parts), env_file, and whether it has a
\* non-empty 'extends'
FileService(build, volumes, env_file, extends) ==
    [build |-> build, volumes |-> volumes, env_file |-> env_file, extends |-> extends]

\* host = volume.split(':')[0]; container = volume.split(':')[1];
\* volumes[index] = abspath(host) + ':' + container
NormalizeVolume(volume, dir) ==
    IF Len(volume) > 1 THEN << abspath(volume[1], dir), volume[2] >> ELSE volume

NormalizeService(service, dir) ==
    FileService(IF service.build # <<>> THEN <<abspath(service.build[1], dir)>> ELSE <<>>,
                [i \in 1..Len(service.volumes) |-> NormalizeVolume(service.volumes[i], dir)],
                [i \in 1..Len(service.env_file) |-> abspath(service.env_file[i], dir)],
                service.extends)

\* extends.file on the parsed mapping raises AttributeError
resolve_relative_paths_raises(doc) == \E k \in DOMAIN doc : doc[k].extends

resolve_relative_paths(doc, dir) == [k \in DOMAIN doc |-> NormalizeService(doc[k], dir)]

FileCall(old, url, doc, out, err) ==
    [old |-> old, url |-> url, doc |-> doc, out |-> out, err |-> err]

NoFileDoc == [k \in {} |-> FileService(<<>>, <<>>, <<>>, FALSE)]

\* the directory os.chdir(os.path.dirname(url.path)) moves to
TargetDir(url) == abspath(dirname(url), cwd).segs

\* os.chdir('') raises, as does a directory that does not exist
ChdirRaises(url, exists) == dirname(url) = Rel(<<>>) \/ ~exists

FileUrls == { Rel(<<"a.yml">>), Rel(<<"sub", "a.yml">>), Abs(<<"etc", "a.yml">>) }

VolumeEntries ==
    { << Rel(<<"data">>), Abs(<<"data">>) >>,
      << Rel(<<".", "data">>), Abs(<<"data">>), Rel(<<"ro">>) >>,
      << Rel(<<"..", "up">>), Abs(<<"up">>) >>,
      << Abs(<<"srv">>), Abs(<<"srv">>) >>,
      << Rel(<<"named">>) >> }

VolumeLists == UNION { [1..n -> VolumeEntries] : n \in 0..MaxVolumes }

FileServicesOnDisk ==
    { FileService(bld, vols, env, ext) :
        bld \in { <<>>, <<Rel(<<".", "x">>)>> },
        vols \in VolumeLists,
        env \in { <<>>, <<Rel(<<"env">>)>> },
        ext \in BOOLEAN }

FileDocsOnDisk == { [k \in {ka} |-> sv] : sv \in FileServicesOnDisk }

CanCall == fpc \in {"idle", "returned"}

\* the call returns: chdir, open, read_config, resolve_relative_paths,
\* chdir(old_dir)
GetProjectFromFile ==
    /\ CanCall
    /\ \E url \in FileUrls, doc \in FileDocsOnDisk :
          /\ ~ChdirRaises(url, TRUE)
          /\ ~resolve_relative_paths_raises(doc)
          /\ fcall' = FileCall(cwd, url, doc, resolve_relative_paths(doc, TargetDir(url)), "none")
    /\ fpc' = "returned"
    /\ cwd' = cwd
    /\ UNCHANGED resolverVars

\* os.chdir raises: the working directory has not been changed yet
GetProjectFromFileChdirError ==
    /\ CanCall
    /\ \E url \in FileUrls, exists \in BOOLEAN :
          /\ ChdirRaises(url, exists)
          /\ fcall' = FileCall(cwd, url, NoFileDoc, NoFileDoc, "OSError")
    /\ fpc' = "raised"
    /\ cwd' = cwd
    /\ UNCHANGED resolverVars

\* open() or read_config raises after the chdir: nothing changes back
GetProjectFromFileReadError ==
    /\ CanCall
    /\ \E url \in FileUrls, err \in {"IOError", "YAMLError"} :
          /\ ~ChdirRaises(url, TRUE)
          /\ fcall' = FileCall(cwd, url, NoFileDoc, NoFileDoc, err)
          /\ cwd' = TargetDir(url)
    /\ fpc' = "raised"
    /\ UNCHANGED resolverVars

\* resolve_relative_paths raises after the chdir: nothing changes back
GetProjectFromFileNormalizeError ==
    /\ CanCall
    /\ \E url \in FileUrls, doc \in FileDocsOnDisk :
          /\ ~ChdirRaises(url, TRUE)
          /\ resolve_relative_paths_raises(doc)
          /\ fcall' = FileCall(cwd, url, doc, NoFileDoc, "AttributeError")
          /\ cwd' = TargetDir(url)
    /\ fpc' = "raised"
    /\ UNCHANGED resolverVars

FileNext ==
    \/ GetProjectFromFile
    \/ GetProjectFromFileChdirError
    \/ GetProjectFromFileReadError
    \/ GetProjectFromFileNormalizeError

----------------------------------------------------------------------------
(* The inputs *)

Namespaces == {X, Y}

LinkEntries == { <<ka, db>>, <<ka>>, <<kc, db>> }
VolumesFromEntries == { <<ka>>, <<ka, ro>>, <<kc>> }

\* the service that carries the references of a fragment
ServiceVariants ==
    {Plain}
    \cup { Service(<<e>>, <<>>) : e \in LinkEntries }
    \cup { Service(<<>>, <<v>>) : v \in VolumesFromEntries }
    \cup { Service(<< <<ka, db>>, <<kc, db>> >>, << <<ka, ro>> >>) }

Services(keys, holder) == [k \in keys |-> IF k = kb THEN holder ELSE Plain]

FileIncludes ==
    { <<>>, <<Entry(Y, HttpLoc)>>, <<Entry(X, Url("", "", "/etc/a.yml"))>>,
      <<Entry(EmptyString, S3Loc)>> }

FileServices ==
    { Services({ka, kb}, holder) : holder \in ServiceVariants }
    \cup { Services({ka, kb, kxa}, Plain) }

FileDocs ==
    {Absent} \cup
    { Holds(p[1], p[2] # <<>>, p[2]) : p \in FileServices \X FileIncludes }

HttpDocs ==
    {Absent} \cup
    { Holds([k \in {ka} |-> Plain], inc # <<>>, inc) :
        inc \in { <<>>, <<Entry(X, FileLoc)>>, <<Entry(Y, S3Loc)>> } }

S3Docs == { Absent, Holds([k \in {kb} |-> Plain], FALSE, <<>>) }

\* the base document's include mapping: each namespace at most once (they are
\* the keys of a dict), 'x' first when there is any
IncludeMappings ==
    { inc \in UNION { [1..n -> [ns : Namespaces, url : RawRefs]] :
                         n \in 0..Cardinality(Namespaces) } :
        /\ \A i, j \in 1..Len(inc) : inc[i].ns = inc[j].ns => i = j
        /\ Len(inc) > 0 => inc[1].ns = X }

BaseDocs ==
    { Config([k \in keys |-> Id(BaseLoc, k)], inc # <<>>, inc) :
        <<keys, inc>> \in {{ka, kxa}, {ka, NamespaceKey}} \X IncludeMappings }

Worlds ==
    { f \in [Locs -> FileDocs \cup HttpDocs \cup S3Docs] :
        /\ f[FileLoc] \in FileDocs
        /\ f[HttpLoc] \in HttpDocs
        /\ f[S3Loc] \in S3Docs
        /\ f[FtpLoc] = Absent }

IdleFile == FileCall(<<>>, Rel(<<>>), NoFileDoc, NoFileDoc, "none")

WorkingDirs == { <<"home">>, <<"home", "proj">> }

Init ==
    /\ files \in Worlds
    /\ base \in BaseDocs
    /\ cache = EmptyMap
    /\ heap = [id \in { base.svc[k] : k \in DOMAIN base.svc } |-> Plain]
    /\ stack = <<>>
    /\ status = "init"
    /\ error = "none"
    /\ result = NoDocument
    /\ fetchLog = <<>>
    /\ included = <<>>
    /\ cwd = <<>>
    /\ fcall = IdleFile
    /\ fpc = "idle"

Next == ResolverNext

Spec == Init /\ [][Next]_vars

\* the run is one sequential computation: it takes its next step when it has one
FairSpec == Spec /\ WF_vars(Next)

\* the local-file transport on its own, called from any working directory
FileInit ==
    /\ files = [u \in Locs |-> Absent]
    /\ base = NoDocument
    /\ cache = EmptyMap
    /\ heap = EmptyMap
    /\ stack = <<>>
    /\ status = "init"
    /\ error = "none"
    /\ result = NoDocument
    /\ fetchLog = <<>>
    /\ included = <<>>
    /\ cwd \in WorkingDirs
    /\ fcall = IdleFile
    /\ fpc = "idle"

FileSpec == FileInit /\ [][FileNext]_vars

----------------------------------------------------------------------------
(* What the claims speak of *)

SupportedSchemes == {"file", "http", "https", "s3"}

\* the source behind a located reference cannot be fetched
BadSource(url) == url.scheme \notin SupportedSchemes \/ ~files[url].present

\* the services of the stored document of a location, by value
StoredServices(url) == [k \in DOMAIN cache[url].svc |-> heap[cache[url].svc[k]]]

\* the service keys of the base document ('namespace' is not one)
BaseKeys == DOMAIN base.svc \ {NamespaceKey}

\* the include entries whose fragment was obtained
Obtained == { i \in 1..Len(included) : included[i].url \in DOMAIN cache }

\* the locations the entries of a document refer to
Refs(inc) == { normalize_url(inc[i].url) : i \in 1..Len(inc) }
Successors(url) == IF BadSource(url) THEN {} ELSE Refs(files[url].inc)
Grow(S) == S \cup UNION { Successors(u) : u \in S }
\* the locations reachable from a set of locations (there are four locations)
Closure(S) == Grow(Grow(Grow(Grow(S))))
Reachable == Closure(Refs(base.inc))
Cyclic == \E u \in Reachable : u \in Closure(Successors(u))
AllFetchesSucceed == \A u \in Reachable : ~BadSource(u)

----------------------------------------------------------------------------
(* The claims *)

\* C1: whatever is done to the documents ConfigCache.get hands out, the
\* stored document of every location stays equal to the document that was
\* fetched for it, so that every later get returns the fetched document.
C1_CacheKeepsFetchedDocument ==
    \A url \in DOMAIN cache :
        /\ StoredServices(url) = files[url].svcs
        /\ cache[url].hasInc = files[url].hasInc
        /\ cache[url].inc = files[url].inc

\* C2: when no two include entries share an effective namespace, the result
\* of include() holds every service of the base document and of every
\* fetched fragment under its own key: none is lost or overwritten.
C2_NoServiceLost ==
    ( /\ status = "done"
      /\ \A i, j \in 1..Len(included) : included[i].eff = included[j].eff => i = j )
    => /\ \A k \in BaseKeys :
            k \in DOMAIN result.svc /\ result.svc[k] = Id(BaseLoc, k)
       /\ \A i \in 1..Len(included) : \A k \in DOMAIN files[included[i].url].svcs :
            /\ Dotted(included[i].eff, k) \in DOMAIN result.svc
            /\ result.svc[Dotted(included[i].eff, k)] = Id(included[i].url, k)

\* the entry the claim expects for a links entry name[:alias]
C3_Expected(link, namespace, keys) ==
    IF link[1] \in keys THEN <<Dotted(namespace, link[1])>> \o Tail(link) ELSE link

\* C3: a fragment included under a non-empty namespace has every links entry
\* whose name is one of its own top-level keys qualified by the namespace and
\* every other entry unchanged, with or without an alias, and the rewriting
\* raises nothing.
C3_LinksRewritten ==
    /\ error # "IndexError"
    /\ (Obtained # {} /\ Len(included) \in Obtained /\ Truthy(included[Len(included)].eff)) =>
         LET e == included[Len(included)]
             f == files[e.url]
             keys == DOMAIN f.svcs \cup (IF f.hasInc THEN {IncludeKey} ELSE {})
         IN  \A k \in DOMAIN f.svcs :
                heap[Id(e.url, k)].links =
                    [n \in 1..Len(f.svcs[k].links) |-> C3_Expected(f.svcs[k].links[n], e.eff, keys)]

\* C4: a document returned by include() has no 'include' key, has every
\* service key of the base document, and has ns.k for every top-level include
\* entry (ns, location) and every service key k of the fragment at location.
C4_ResultKeys ==
    status = "done" =>
        /\ ~result.hasInc
        /\ BaseKeys \subseteq DOMAIN result.svc
        /\ \A i \in 1..Len(base.inc) :
             \A k \in DOMAIN files[normalize_url(base.inc[i].url)].svcs :
                Dotted(base.inc[i].ns, k) \in DOMAIN result.svc

C5_Raised(url) ==
    IF url.scheme \notin SupportedSchemes THEN "ConfigError"
    ELSE IF url.scheme = "file" THEN "IOError"
    ELSE "FetchExternalConfigError"

C6_FetchedAtMostOnce ==
    \A i, j \in 1..Len(fetchLog) : fetchLog[i] = fetchLog[j] => i = j

\* two include entries for one location were both served, by one fetch
C6_Witness ==
    /\ status = "done"
    /\ \E i, j \in 1..Len(included) : i # j /\ included[i].url = included[j].url
    /\ \A i \in 1..Len(included) : \E n \in 1..Len(fetchLog) : fetchLog[n] = included[i].url

\* C8: every service k of a fragment, at whatever depth its include entry
\* sits, is in the final document under n.k, n being the namespace of the
\* include entry that refers to the fragment directly.
C8_DirectNamespaceOnly ==
    status = "done" =>
        \A i \in 1..Len(included) : \A k \in DOMAIN files[included[i].url].svcs :
            Dotted(included[i].ns, k) \in DOMAIN result.svc

\* C10: with every fetch succeeding include() ends exactly when the include
\* graph reachable from the base document has no cycle: on a cycle it never
\* ends (it neither returns nor raises), without one it completes.
C10_EndsIffAcyclic ==
    AllFetchesSucceed =>
        /\ Cyclic => status \notin {"done", "failed"}
        /\ ~Cyclic => status \notin {"failed", "overflow"}

\* the entry the claim expects for a volumes entry
C7_Expected(volume, dir) ==
    IF Len(volume) > 1 THEN <<abspath(volume[1], dir)>> \o Tail(volume) ELSE volume

\* C7: path normalization replaces the text before the first ':' of a
\* volumes entry by its absolute form and keeps everything after the first
\* ':' as it was; an entry without ':' is unchanged.
C7_VolumesKeepContainerSide ==
    fpc = "returned" =>
        \A k \in DOMAIN fcall.doc : \A i \in 1..Len(fcall.doc[k].volumes) :
            fcall.out[k].volumes[i] =
                C7_Expected(fcall.doc[k].volumes[i],
                            abspath(dirname(fcall.url), fcall.old).segs)

\* C9: when get_project_from_file hands control back, by returning or by
\* raising, the working directory is the one it was called in.
C9_WorkingDirectoryRestored ==
    fpc \in {"returned", "raised"} => cwd = fcall.old

----------------------------------------------------------------------------
(* What does hold of the resolver, away from the defects above *)

\* no service key of the inputs contains the separator '.'
PlainKeys ==
    /\ \A k \in DOMAIN base.svc : Len(k) = 1
    /\ \A u \in Locs : \A k \in DOMAIN files[u].svcs : Len(k) = 1

\* every links entry of the inputs has an alias
AliasedLinks ==
    \A u \in Locs : \A k \in DOMAIN files[u].svcs : ~ServiceRaises(files[u].svcs[k])

NoLossWithPlainKeys == PlainKeys => C2_NoServiceLost
ResultKeysWithPlainKeys == PlainKeys => C4_ResultKeys
DirectNamespaceWithPlainKeys == PlainKeys => C8_DirectNamespaceOnly
EndsIffAcyclicWithAliasedLinks == AliasedLinks => C10_EndsIffAcyclic

\* a nested fragment's keys carry its own entry's namespace, not the chain's
NestedFragmentReached ==
    /\ status = "done"
    /\ \E i \in 1..Len(included) :
          /\ included[i].url = HttpLoc /\ included[i].ns = Y
          /\ Dotted(Y, ka) \in DOMAIN result.svc
          /\ Dotted(X \o Y, ka) \notin DOMAIN result.svc

\* without a cycle, and with every fetch succeeding, the run ends
AcyclicRunsEnd ==
    (AllFetchesSucceed /\ ~Cyclic) ~> (status \in {"done", "failed"})

\* on a cycle the recursion reaches every depth the model follows
CycleRecursesOn ==
    (AllFetchesSucceed /\ Cyclic /\ AliasedLinks) ~> (status = "overflow")

====
